---- MODULE Spec2Model ----
(***************************************************************************)
(* Model of samples/ftrace/ftrace-ops.c: the ftrace_ops benchmark module.  *)
(* The module's init function registers nr_ops_relevant ops on             *)
(* tracee_relevant and nr_ops_irrelevant ops on tracee_irrelevant, times   *)
(* nr_function_calls calls of tracee_relevant, checks the counters,        *)
(* reports the latency and either stays loaded (persist) or tears down     *)
(* and fails the load with -EINVAL.                                        *)
(*                                                                         *)
(* The ftrace core, kcalloc and ktime_get are the environment: each call   *)
(* into them is modelled by its contract, with every return value the      *)
(* caller tests for taken nondeterministically.                            *)
(* unsigned int values stay far below 2^32 within the bounds, so no        *)
(* wrap-around is modelled.                                                *)
(***************************************************************************)
EXTENDS Integers, FiniteSets, Sequences, TLC

\* ---- bounds of the model ------------------------------------------------
MaxCalls == 2     \* nr_function_calls ranges over 0..MaxCalls
MaxOps == 2       \* nr_ops_relevant, nr_ops_irrelevant range over 0..MaxOps
MaxPeriod == 2    \* end - start ranges over 0..MaxPeriod nanoseconds
MaxFaults == 1    \* calls into kcalloc / ftrace that may fail in one run

\* ---- program constants --------------------------------------------------
FTRACE_OPS_FL_SAVE_REGS == "FTRACE_OPS_FL_SAVE_REGS"
FTRACE_OPS_FL_RECURSION == "FTRACE_OPS_FL_RECURSION"
FTRACE_OPS_FL_RCU == "FTRACE_OPS_FL_RCU"

tracee_relevant == "tracee_relevant"
tracee_irrelevant == "tracee_irrelevant"

\* An ftrace_ops whose filter hash is empty traces every function.
EMPTY_HASH == "EMPTY_HASH"

VARIABLES
    \* module parameters
    nr_function_calls, nr_ops_relevant, nr_ops_irrelevant,
    save_regs, assist_recursion, assist_rcu, check_count, persist,
    \* build configuration: IS_ENABLED(CONFIG_DYNAMIC_FTRACE_WITH_REGS)
    CONFIG_DYNAMIC_FTRACE_WITH_REGS,
    \* file-scope state
    ops_relevant, ops_irrelevant, tracer_relevant, tracer_irrelevant,
    \* locals of ftrace_ops_sample_init and of the helper being executed
    flags, start, end, period, i,
    \* control: position in init / exit, which entry point runs ops_destroy,
    \* and what init returned ("none" until it returns, then "0" or "-EINVAL")
    pc, caller, ret,
    \* what was printed
    reported_save_regs, reported_per_call, warnings,
    \* history: the save_regs parameter as passed at load time, and counts
    \* of the calls made so far
    save_regs_param, nr_tracee_calls, nr_register_calls,
    nr_unregister_calls, nr_free_filter_calls, nr_kfree_calls,
    \* environment: how many calls into kcalloc / ftrace have failed
    nr_faults

vars == <<nr_function_calls, nr_ops_relevant, nr_ops_irrelevant,
          save_regs, assist_recursion, assist_rcu, check_count, persist,
          CONFIG_DYNAMIC_FTRACE_WITH_REGS,
          ops_relevant, ops_irrelevant, tracer_relevant, tracer_irrelevant,
          flags, start, end, period, i, pc, caller, ret,
          reported_save_regs, reported_per_call, warnings,
          save_regs_param, nr_tracee_calls, nr_register_calls,
          nr_unregister_calls, nr_free_filter_calls, nr_kfree_calls,
          nr_faults>>

params == <<nr_function_calls, nr_ops_relevant, nr_ops_irrelevant,
            assist_recursion, assist_rcu, check_count, persist,
            CONFIG_DYNAMIC_FTRACE_WITH_REGS, save_regs_param>>

\* ---- data ---------------------------------------------------------------

\* struct sample_ops as kcalloc leaves it: all zero, nothing registered.
\* set_filter_ret / register_ret record what the two calls of the
\* registration loop returned ("none": not called yet).
sample_ops ==
    [func |-> "NULL", flags |-> {}, filter |-> EMPTY_HASH,
     registered |-> FALSE, count |-> 0,
     set_filter_ret |-> "none", register_ret |-> "none"]

\* A struct sample_ops * : NULL, or an array of nr elements (possibly
\* already handed to kfree).
NullPtr == [null |-> TRUE, freed |-> FALSE, elem |-> <<>>]

kcalloc(nr) == [null |-> FALSE, freed |-> FALSE,
                elem |-> [k \in 0 .. nr - 1 |-> sample_ops]]

\* kcalloc of zero elements returns ZERO_SIZE_PTR and cannot fail.
kcalloc_may_fail(nr) == nr > 0

\* ---- the environment: ftrace core, as the module relies on it -----------

\* Return values the module tests with WARN_ON_ONCE: 0 or an error.
RetVals == {"ok", "err"}

Fault(r) == IF r = "err" THEN 1 ELSE 0

\* ftrace_set_filter_ip(&op, ip, 0, 0): on success the op's filter hash
\* holds ip; on failure the hash is left as it was.
ftrace_set_filter_ip(op, ip, r) ==
    [op EXCEPT !.filter = IF r = "ok" THEN ip ELSE @, !.set_filter_ret = r]

\* register_ftrace_function(&op): on success the op is on the ftrace list.
register_ftrace_function(op, r) ==
    [op EXCEPT !.registered = IF r = "ok" THEN TRUE ELSE @, !.register_ret = r]

\* unregister_ftrace_function(&op): takes a registered op off the list; an
\* op that is not registered makes it return an error and change nothing.
unregister_ftrace_function(op) == [op EXCEPT !.registered = FALSE]

\* ftrace_free_filter(&op): the filter hash is released.
ftrace_free_filter(op) == [op EXCEPT !.filter = EMPTY_HASH]

\* The ftrace core calls op.func on entry to fn iff op is registered and
\* its filter is empty (all functions) or holds fn.
op_traces(op, fn) ==
    op.registered /\ (op.filter = EMPTY_HASH \/ op.filter = fn)

\* ---- the tracers --------------------------------------------------------

ops_func_nop(op) == op

\* Mutant of ops_func_count: the counter is left alone.
ops_func_count_no_increment(op) == op

ops_func_count(op) == [op EXCEPT !.count = @ + 1]

call_tracer(op) ==
    IF op.func = "ops_func_count" THEN ops_func_count(op)
    ELSE IF op.func = "ops_func_nop" THEN ops_func_nop(op)
    ELSE op

\* One entry into function fn, seen from the array ops: every op of a live
\* array that traces fn has its tracer called once.
trace_entry(ops, fn) ==
    IF ops.null \/ ops.freed THEN ops
    ELSE [ops EXCEPT !.elem =
            [k \in DOMAIN @ |->
                IF op_traces(@[k], fn) THEN call_tracer(@[k]) ELSE @[k]]]

\* ---- pure parts of ftrace_ops_sample_init -------------------------------

\* Loop conditions of ops_alloc_init (line 129) and ops_destroy (line 144).
alloc_loop_cond(k, nr) == k < nr

\* Mutant of destroy_loop_cond: the loop stops one element early.
destroy_loop_cond_short(k, nr) == k + 1 < nr

destroy_loop_cond(k, nr) == k < nr

\* Mutant of returns_after_report: the test of persist is inverted.
returns_after_report_inverted(p) == ~p

\* Line 228: init returns 0 right after the report iff persist is set.
returns_after_report(p) == p

\* save_regs after the IS_ENABLED test of lines 175-177.
save_regs_after(cfg, sr) == IF ~cfg /\ sr THEN FALSE ELSE sr

\* Mutant of compute_flags: FTRACE_OPS_FL_SAVE_REGS is requested whenever
\* save_regs is set, whatever the kernel supports.
compute_flags_no_config_test(cfg, sr, rec, rcu) ==
    (IF sr THEN {FTRACE_OPS_FL_SAVE_REGS} ELSE {})
    \cup (IF rec THEN {FTRACE_OPS_FL_RECURSION} ELSE {})
    \cup (IF rcu THEN {FTRACE_OPS_FL_RCU} ELSE {})

\* flags as computed by lines 171-186.
compute_flags(cfg, sr, rec, rcu) ==
    (IF ~cfg /\ sr THEN {} ELSE IF sr THEN {FTRACE_OPS_FL_SAVE_REGS} ELSE {})
    \cup (IF rec THEN {FTRACE_OPS_FL_RECURSION} ELSE {})
    \cup (IF rcu THEN {FTRACE_OPS_FL_RCU} ELSE {})

\* Lines 188-191: check_count switches a tracer to ops_func_count;
\* otherwise it keeps its value.
tracer_after(cc, tracer) == IF cc THEN "ops_func_count" ELSE tracer

\* Mutant of timed_loop_cond: one call too many.
timed_loop_cond_inclusive(k) == k <= nr_function_calls

\* Loop condition of the timed loop, line 215.
timed_loop_cond(k) == k < nr_function_calls

\* ops_check: the number of warnings printed. The loop body reads
\* ops->count, the counter of the first element, on every iteration.
ops_check(ops, nr, expected_count) ==
    IF ops.null \/ ~check_count THEN 0
    ELSE Cardinality({k \in 0 .. nr - 1 : ops.elem[0].count # expected_count})

\* ---- access to the two arrays -------------------------------------------

Which == {"relevant", "irrelevant"}

Ops(w) == IF w = "relevant" THEN ops_relevant ELSE ops_irrelevant

NrOps(w) == IF w = "relevant" THEN nr_ops_relevant ELSE nr_ops_irrelevant

Tracee(w) == IF w = "relevant" THEN tracee_relevant ELSE tracee_irrelevant

Tracer(w) == IF w = "relevant" THEN tracer_relevant ELSE tracer_irrelevant

SetOps(w, v) ==
    IF w = "relevant"
    THEN ops_relevant' = v /\ UNCHANGED ops_irrelevant
    ELSE ops_irrelevant' = v /\ UNCHANGED ops_relevant

\* ---- initial state ------------------------------------------------------

Init ==
    /\ nr_function_calls \in 0 .. MaxCalls
    /\ nr_ops_relevant \in 0 .. MaxOps
    /\ nr_ops_irrelevant \in 0 .. MaxOps
    /\ save_regs \in BOOLEAN
    /\ assist_recursion \in BOOLEAN
    /\ assist_rcu \in BOOLEAN
    /\ check_count \in BOOLEAN
    /\ persist \in BOOLEAN
    /\ CONFIG_DYNAMIC_FTRACE_WITH_REGS \in BOOLEAN
    /\ ops_relevant = NullPtr
    /\ ops_irrelevant = NullPtr
    /\ tracer_relevant = "ops_func_nop"
    /\ tracer_irrelevant = "ops_func_nop"
    /\ flags = {}
    /\ start = 0 /\ end = 0 /\ period = 0 /\ i = 0
    /\ pc = "init" /\ caller = "init" /\ ret = "none"
    /\ reported_save_regs = "none" /\ reported_per_call = "none"
    /\ warnings = 0
    /\ save_regs_param = save_regs
    /\ nr_tracee_calls = 0 /\ nr_register_calls = 0
    /\ nr_unregister_calls = 0 /\ nr_free_filter_calls = 0
    /\ nr_kfree_calls = 0
    /\ nr_faults = 0

history == <<nr_tracee_calls, nr_register_calls, nr_unregister_calls,
             nr_free_filter_calls, nr_kfree_calls>>

timing == <<start, end, period>>

printed == <<reported_save_regs, reported_per_call, warnings>>

\* ---- ftrace_ops_sample_init, lines 171-207 ------------------------------

ftrace_ops_sample_init_setup ==
    /\ pc = "init"
    /\ flags' = compute_flags(CONFIG_DYNAMIC_FTRACE_WITH_REGS, save_regs,
                              assist_recursion, assist_rcu)
    /\ save_regs' = save_regs_after(CONFIG_DYNAMIC_FTRACE_WITH_REGS, save_regs)
    /\ tracer_relevant' = tracer_after(check_count, tracer_relevant)
    /\ tracer_irrelevant' = tracer_after(check_count, tracer_irrelevant)
    /\ reported_save_regs' = IF save_regs' THEN "YES" ELSE "NO"
    /\ pc' = "alloc_relevant"
    /\ UNCHANGED <<params, ops_relevant, ops_irrelevant, timing, i, caller,
                   ret, reported_per_call, warnings, history, nr_faults>>

\* ---- ops_alloc_init, lines 120-137 --------------------------------------

AfterAlloc(w) == IF w = "relevant" THEN "alloc_irrelevant" ELSE "start"

\* kcalloc and the test of its result, lines 125-127.
ops_alloc_init_kcalloc(w) ==
    /\ pc = "alloc_" \o w
    /\ \/ /\ kcalloc_may_fail(NrOps(w))
          /\ nr_faults < MaxFaults
          /\ nr_faults' = nr_faults + 1
          /\ SetOps(w, NullPtr)
          /\ pc' = AfterAlloc(w)
       \/ /\ SetOps(w, kcalloc(NrOps(w)))
          /\ pc' = "register_" \o w
          /\ UNCHANGED nr_faults
    /\ i' = 0
    /\ UNCHANGED <<params, save_regs, tracer_relevant, tracer_irrelevant,
                   flags, timing, caller, ret, printed, history>>

\* One iteration of the loop of lines 129-134.
ops_alloc_init_register(w) ==
    /\ pc = "register_" \o w
    /\ alloc_loop_cond(i, NrOps(w))
    /\ \E rf \in RetVals, rr \in RetVals :
         LET op0 == [Ops(w).elem[i] EXCEPT !.func = Tracer(w), !.flags = flags]
             op1 == ftrace_set_filter_ip(op0, Tracee(w), rf)
             op2 == register_ftrace_function(op1, rr)
         IN /\ nr_faults + Fault(rf) + Fault(rr) <= MaxFaults
            /\ nr_faults' = nr_faults + Fault(rf) + Fault(rr)
            /\ SetOps(w, [Ops(w) EXCEPT !.elem[i] = op2])
    /\ i' = i + 1
    /\ nr_register_calls' = nr_register_calls + 1
    /\ UNCHANGED <<params, save_regs, tracer_relevant, tracer_irrelevant,
                   flags, timing, pc, caller, ret, printed, nr_tracee_calls,
                   nr_unregister_calls, nr_free_filter_calls, nr_kfree_calls>>

\* Loop exit and return, line 136.
ops_alloc_init_return(w) ==
    /\ pc = "register_" \o w
    /\ ~alloc_loop_cond(i, NrOps(w))
    /\ pc' = AfterAlloc(w)
    /\ UNCHANGED <<params, save_regs, ops_relevant, ops_irrelevant,
                   tracer_relevant, tracer_irrelevant, flags, timing, i,
                   caller, ret, printed, history, nr_faults>>

\* ---- the timed loop, lines 214-217 --------------------------------------

\* ktime_get: time is counted from this first reading.
ftrace_ops_sample_init_start ==
    /\ pc = "start"
    /\ start' = 0
    /\ i' = 0
    /\ pc' = "loop"
    /\ UNCHANGED <<params, save_regs, ops_relevant, ops_irrelevant,
                   tracer_relevant, tracer_irrelevant, flags, end, period,
                   caller, ret, printed, history, nr_faults>>

\* One call of tracee_relevant(): the ftrace core runs the tracers of the
\* ops attached to it.
call_tracee_relevant ==
    /\ pc = "loop"
    /\ timed_loop_cond(i)
    /\ ops_relevant' = trace_entry(ops_relevant, tracee_relevant)
    /\ ops_irrelevant' = trace_entry(ops_irrelevant, tracee_relevant)
    /\ i' = i + 1
    /\ nr_tracee_calls' = nr_tracee_calls + 1
    /\ UNCHANGED <<params, save_regs, tracer_relevant, tracer_irrelevant,
                   flags, timing, pc, caller, ret, printed,
                   nr_register_calls, nr_unregister_calls,
                   nr_free_filter_calls, nr_kfree_calls, nr_faults>>

\* ktime_get is monotonic: end >= start.
ftrace_ops_sample_init_end ==
    /\ pc = "loop"
    /\ ~timed_loop_cond(i)
    /\ end' \in start .. start + MaxPeriod
    /\ pc' = "check"
    /\ UNCHANGED <<params, save_regs, ops_relevant, ops_irrelevant,
                   tracer_relevant, tracer_irrelevant, flags, start, period,
                   i, caller, ret, printed, history, nr_faults>>

\* ---- lines 219-220 ------------------------------------------------------

ftrace_ops_sample_init_check ==
    /\ pc = "check"
    /\ warnings' = warnings
                   + ops_check(ops_relevant, nr_ops_relevant, nr_function_calls)
                   + ops_check(ops_irrelevant, nr_ops_irrelevant, 0)
    /\ pc' = "report"
    /\ UNCHANGED <<params, save_regs, ops_relevant, ops_irrelevant,
                   tracer_relevant, tracer_irrelevant, flags, timing, i,
                   caller, ret, reported_save_regs, reported_per_call,
                   history, nr_faults>>

\* ---- lines 222-226 ------------------------------------------------------

\* div_u64(period, nr_function_calls). A zero divisor is a division by
\* zero in the kernel: the build either traps (divide error, init never
\* returns) or yields some quotient.
ftrace_ops_sample_init_report ==
    /\ pc = "report"
    /\ period' = end - start
    /\ IF nr_function_calls # 0
       THEN /\ reported_per_call' = period' \div nr_function_calls
            /\ pc' = "return"
       ELSE \/ /\ reported_per_call' = "none"
               /\ pc' = "oops"
            \/ /\ reported_per_call' \in 0 .. MaxPeriod
               /\ pc' = "return"
    /\ UNCHANGED <<params, save_regs, ops_relevant, ops_irrelevant,
                   tracer_relevant, tracer_irrelevant, flags, start, end, i,
                   caller, ret, reported_save_regs, warnings, history, nr_faults>>

\* ---- lines 228-239 ------------------------------------------------------

ftrace_ops_sample_init_return_persist ==
    /\ pc = "return"
    /\ returns_after_report(persist)
    /\ ret' = "0"
    /\ pc' = "loaded"
    /\ UNCHANGED <<params, save_regs, ops_relevant, ops_irrelevant,
                   tracer_relevant, tracer_irrelevant, flags, timing, i,
                   caller, printed, history, nr_faults>>

ftrace_ops_sample_init_teardown ==
    /\ pc = "return"
    /\ ~returns_after_report(persist)
    /\ pc' = "destroy_relevant"
    /\ UNCHANGED <<params, save_regs, ops_relevant, ops_irrelevant,
                   tracer_relevant, tracer_irrelevant, flags, timing, i,
                   caller, ret, printed, history, nr_faults>>

\* ---- ops_destroy, lines 139-150 -----------------------------------------

AfterDestroy(w) ==
    IF w = "relevant" THEN "destroy_irrelevant"
    ELSE IF caller = "init" THEN "failed" ELSE "unloaded"

\* The value the entry point returns once its last ops_destroy is done.
RetAfterDestroy(w) ==
    IF w = "irrelevant" /\ caller = "init" THEN "-EINVAL" ELSE ret

\* Lines 141-142, and the loop's initialisation.
ops_destroy_enter(w) ==
    /\ pc = "destroy_" \o w
    /\ IF Ops(w).null
       THEN pc' = AfterDestroy(w) /\ ret' = RetAfterDestroy(w)
       ELSE pc' = "unregister_" \o w /\ ret' = ret
    /\ i' = 0
    /\ UNCHANGED <<params, save_regs, ops_relevant, ops_irrelevant,
                   tracer_relevant, tracer_irrelevant, flags, timing,
                   caller, printed, history, nr_faults>>

\* One iteration of the loop of lines 144-147.
ops_destroy_unregister(w) ==
    /\ pc = "unregister_" \o w
    /\ destroy_loop_cond(i, NrOps(w))
    /\ SetOps(w, [Ops(w) EXCEPT !.elem[i] =
                    ftrace_free_filter(unregister_ftrace_function(@))])
    /\ i' = i + 1
    /\ nr_unregister_calls' = nr_unregister_calls + 1
    /\ nr_free_filter_calls' = nr_free_filter_calls + 1
    /\ UNCHANGED <<params, save_regs, tracer_relevant, tracer_irrelevant,
                   flags, timing, pc, caller, ret, printed, nr_tracee_calls,
                   nr_register_calls, nr_kfree_calls, nr_faults>>

\* Loop exit and kfree, line 149.
ops_destroy_kfree(w) ==
    /\ pc = "unregister_" \o w
    /\ ~destroy_loop_cond(i, NrOps(w))
    /\ SetOps(w, [Ops(w) EXCEPT !.freed = TRUE])
    /\ nr_kfree_calls' = nr_kfree_calls + 1
    /\ pc' = AfterDestroy(w)
    /\ ret' = RetAfterDestroy(w)
    /\ UNCHANGED <<params, save_regs, tracer_relevant, tracer_irrelevant,
                   flags, timing, i, caller, printed, nr_tracee_calls,
                   nr_register_calls, nr_unregister_calls,
                   nr_free_filter_calls, nr_faults>>

\* ---- ftrace_ops_sample_exit, lines 243-247 ------------------------------

\* Only a module whose init returned 0 is loaded and can be removed.
ftrace_ops_sample_exit ==
    /\ pc = "loaded"
    /\ caller' = "exit"
    /\ pc' = "destroy_relevant"
    /\ UNCHANGED <<params, save_regs, ops_relevant, ops_irrelevant,
                   tracer_relevant, tracer_irrelevant, flags, timing, i,
                   ret, printed, history, nr_faults>>

Next ==
    \/ ftrace_ops_sample_init_setup
    \/ \E w \in Which : ops_alloc_init_kcalloc(w)
    \/ \E w \in Which : ops_alloc_init_register(w)
    \/ \E w \in Which : ops_alloc_init_return(w)
    \/ ftrace_ops_sample_init_start
    \/ call_tracee_relevant
    \/ ftrace_ops_sample_init_end
    \/ ftrace_ops_sample_init_check
    \/ ftrace_ops_sample_init_report
    \/ ftrace_ops_sample_init_return_persist
    \/ ftrace_ops_sample_init_teardown
    \/ \E w \in Which : ops_destroy_enter(w)
    \/ \E w \in Which : ops_destroy_unregister(w)
    \/ \E w \in Which : ops_destroy_kfree(w)
    \/ ftrace_ops_sample_exit

Spec == Init /\ [][Next]_vars

\* ---- properties ----------------------------------------------------------

AllFlagBits ==
    {FTRACE_OPS_FL_SAVE_REGS, FTRACE_OPS_FL_RECURSION, FTRACE_OPS_FL_RCU}

BeforeTimer == {"init", "alloc_relevant", "register_relevant",
                "alloc_irrelevant", "register_irrelevant", "start"}

AfterTimer == {"check", "report", "return", "oops", "loaded", "failed",
               "unloaded", "destroy_relevant", "unregister_relevant",
               "destroy_irrelevant", "unregister_irrelevant"}

AfterReport == AfterTimer \ {"check", "report"}

Indexes(w) == 0 .. NrOps(w) - 1

\* The array w was allocated (its pointer is not NULL).
Allocated(w) == ~Ops(w).null

\* kcalloc succeeded for w and both calls of every iteration of the
\* registration loop returned 0.
RegistrationsSucceeded(w) ==
    /\ Allocated(w)
    /\ \A k \in Indexes(w) :
         /\ Ops(w).elem[k].set_filter_ret = "ok"
         /\ Ops(w).elem[k].register_ret = "ok"

\* Number of elements of the arrays that were allocated.
NrAllocatedOps ==
    (IF Allocated("relevant") THEN nr_ops_relevant ELSE 0)
    + (IF Allocated("irrelevant") THEN nr_ops_irrelevant ELSE 0)

\* The tracee is called only inside the timed loop, nr_function_calls
\* times in all.
CallsAreTimed ==
    /\ pc \in BeforeTimer => nr_tracee_calls = 0
    /\ pc = "loop" => nr_tracee_calls = i /\ i <= nr_function_calls
    /\ pc \in AfterTimer => nr_tracee_calls = nr_function_calls

\* C1 as stated: the relevant tracee is called exactly nr_function_calls
\* times between the two timestamps, and whenever a call has been made in
\* the loop, all nr_ops_relevant + nr_ops_irrelevant registrations have
\* been attempted and no op has been unregistered.
C1_Original ==
    /\ CallsAreTimed
    /\ (pc = "loop" /\ nr_tracee_calls > 0) =>
         /\ nr_register_calls = nr_ops_relevant + nr_ops_irrelevant
         /\ nr_unregister_calls = 0

\* C1 amended: the relevant tracee is called exactly nr_function_calls
\* times between the two timestamps, and every call is made after both
\* ops_alloc_init calls have returned, that is after one registration has
\* been attempted for every element of every array whose allocation
\* succeeded (none for an array whose kcalloc failed), and before any op is
\* unregistered.
C1_CallsBetweenRegisterAndUnregister ==
    /\ CallsAreTimed
    /\ pc = "loop" =>
         /\ nr_register_calls = NrAllocatedOps
         /\ \A w \in Which : \A k \in DOMAIN Ops(w).elem :
              Ops(w).elem[k].register_ret # "none"
         /\ nr_unregister_calls = 0
    /\ nr_unregister_calls > 0 => pc \in AfterTimer

C1_Witness ==
    /\ pc = "check"
    /\ nr_function_calls >= 2
    /\ nr_tracee_calls = nr_function_calls
    /\ nr_ops_relevant >= 2 /\ nr_ops_irrelevant >= 1
    /\ nr_register_calls = nr_ops_relevant + nr_ops_irrelevant
    /\ \A k \in Indexes("relevant") : ops_relevant.elem[k].registered

\* C2: with check_count set and every registration successful, once the
\* timed loop has finished every relevant op has count = nr_function_calls
\* and every irrelevant op has count = 0, and ops_check prints no warning;
\* with check_count unset both tracers are ops_func_nop, no counter ever
\* leaves 0 and no warning is printed.
C2_Counters ==
    /\ (/\ check_count
        /\ pc \in {"check", "report", "return", "oops"}
        /\ RegistrationsSucceeded("relevant")
        /\ RegistrationsSucceeded("irrelevant")) =>
          /\ \A k \in Indexes("relevant") :
               ops_relevant.elem[k].count = nr_function_calls
          /\ \A k \in Indexes("irrelevant") :
               ops_irrelevant.elem[k].count = 0
          /\ warnings = 0
    /\ ~check_count =>
          /\ tracer_relevant = "ops_func_nop"
          /\ tracer_irrelevant = "ops_func_nop"
          /\ \A w \in Which : \A k \in DOMAIN Ops(w).elem :
               Ops(w).elem[k].count = 0
          /\ warnings = 0

C2_Witness ==
    /\ pc = "report"
    /\ check_count
    /\ nr_function_calls >= 2
    /\ nr_ops_relevant >= 2 /\ nr_ops_irrelevant >= 1
    /\ RegistrationsSucceeded("relevant")
    /\ RegistrationsSucceeded("irrelevant")
    /\ \A k \in Indexes("relevant") :
         ops_relevant.elem[k].count = nr_function_calls
    /\ warnings = 0

\* The op is in the state the registration loop left it in.
AsRegistered(w, k) ==
    LET op == Ops(w).elem[k] IN
    /\ op.registered = (op.register_ret = "ok")
    /\ op.filter = IF op.set_filter_ret = "ok" THEN Tracee(w) ELSE EMPTY_HASH

\* C3: when persist is set, init makes no unregister, ftrace_free_filter or
\* kfree call, and when it returns it returns 0 with every op that was
\* registered still registered and its filter as it was set.
C3_PersistKeepsOps ==
    (persist /\ caller = "init") =>
        /\ nr_unregister_calls = 0
        /\ nr_free_filter_calls = 0
        /\ nr_kfree_calls = 0
        /\ pc # "failed"
        /\ pc = "loaded" =>
             /\ ret = "0"
             /\ \A w \in Which :
                  /\ ~Ops(w).freed
                  /\ Allocated(w) => \A k \in Indexes(w) : AsRegistered(w, k)

C3_Witness ==
    /\ pc = "loaded"
    /\ persist
    /\ ret = "0"
    /\ nr_ops_relevant >= 2 /\ nr_ops_irrelevant >= 1
    /\ \A w \in Which : \A k \in Indexes(w) :
         Allocated(w) /\ Ops(w).elem[k].registered

\* C4: when persist is not set, init never returns 0; when it returns it
\* returns -EINVAL, and by then every op of every allocated array has been
\* through unregister_ftrace_function and ftrace_free_filter, every
\* allocated array has been freed, and no op is registered any more.
C4_TeardownBeforeEinval ==
    /\ ~persist => pc \notin {"loaded", "unloaded"}
    /\ pc = "failed" =>
         /\ ~persist
         /\ ret = "-EINVAL"
         /\ nr_unregister_calls = NrAllocatedOps
         /\ nr_free_filter_calls = NrAllocatedOps
         /\ nr_kfree_calls = Cardinality({w \in Which : Allocated(w)})
         /\ \A w \in Which : Allocated(w) =>
              /\ Ops(w).freed
              /\ \A k \in Indexes(w) :
                   /\ ~Ops(w).elem[k].registered
                   /\ Ops(w).elem[k].filter = EMPTY_HASH

C4_Witness ==
    /\ pc = "failed"
    /\ ~persist
    /\ ret = "-EINVAL"
    /\ nr_ops_relevant >= 2 /\ nr_ops_irrelevant >= 1
    /\ nr_unregister_calls = nr_ops_relevant + nr_ops_irrelevant
    /\ \A w \in Which : \A k \in Indexes(w) :
         Allocated(w) /\ Ops(w).elem[k].register_ret = "ok"

\* C5: the flags word handed to every op holds FTRACE_OPS_FL_SAVE_REGS iff
\* save_regs was set and the kernel has CONFIG_DYNAMIC_FTRACE_WITH_REGS,
\* FTRACE_OPS_FL_RECURSION iff assist_recursion, FTRACE_OPS_FL_RCU iff
\* assist_rcu, and nothing else; save_regs set on a kernel without the
\* option is reset and reported as "NO".
C5_Flags ==
    pc # "init" =>
        /\ FTRACE_OPS_FL_SAVE_REGS \in flags <=>
             (save_regs_param /\ CONFIG_DYNAMIC_FTRACE_WITH_REGS)
        /\ FTRACE_OPS_FL_RECURSION \in flags <=> assist_recursion
        /\ FTRACE_OPS_FL_RCU \in flags <=> assist_rcu
        /\ flags \subseteq AllFlagBits
        /\ \A w \in Which : \A k \in DOMAIN Ops(w).elem :
             Ops(w).elem[k].func # "NULL" => Ops(w).elem[k].flags = flags
        /\ (save_regs_param /\ ~CONFIG_DYNAMIC_FTRACE_WITH_REGS) =>
             ~save_regs /\ reported_save_regs = "NO"

C5_Witness ==
    /\ pc = "return"
    /\ save_regs_param /\ ~CONFIG_DYNAMIC_FTRACE_WITH_REGS
    /\ assist_recursion /\ ~assist_rcu
    /\ reported_save_regs = "NO"
    /\ nr_ops_relevant >= 1 /\ nr_ops_irrelevant >= 1
    /\ \A w \in Which : \A k \in Indexes(w) :
         Allocated(w) /\ Ops(w).elem[k].flags = {FTRACE_OPS_FL_RECURSION}
    /\ nr_function_calls >= 1
    /\ nr_tracee_calls = nr_function_calls

\* C6 as stated: whatever nr_function_calls is, the report is made with a
\* non-zero divisor and shows the integer quotient of period by
\* nr_function_calls.
C6_Original ==
    pc \in AfterReport =>
        /\ nr_function_calls # 0
        /\ reported_per_call = period \div nr_function_calls

====
